---- MODULE Spec2Model ----
(***************************************************************************)
(* Model of app.py, the Streamlit restaurant recommender.                  *)
(*                                                                         *)
(* One script run of a session is split at its remote calls: the place     *)
(* search, each restaurant's tips fetch, the duplicate query and the add   *)
(* of append_history.  Between two remote calls the script runs without    *)
(* interruption, so each action is the code from one response to the next  *)
(* request.  Sessions share only the Firestore collection.                 *)
(*                                                                         *)
(* Strings are sequences of one-character strings.  Ratings are kept in    *)
(* hundredths (4.33 is 433), the precision round(x, 2) leaves.             *)
(***************************************************************************)
EXTENDS Integers, Sequences, FiniteSets, Bags, TLC

\* ------------------------------------------------------------------ bounds
\* Places returned by one place search, per specification.
SessionPlaces == 1
SearchPlaces == 1
RankPlaces == 3
RacePlaces == 1
\* Upper end of random.randint(3, 7), capped.
MaxNumReviews == 3
\* Documents the collection holds before it rejects an add.
MaxDocs == 2

\* ------------------------------------------------------- program constants
MinNumReviews == 3
MaxTips == 3
PodiumSize == 3
GallerySize == 6
MinStar == 1
MaxStar == 5
FallbackLow == 3

\* st.session_state.results is None or a non-empty list; None is kept as the
\* empty sequence, the one falsy value.
None == <<>>
\* No dict was handed to append_history.
NoPick == [Restaurant |-> "", Food |-> <<>>, Location |-> <<>>]
\* No place search was sent.
NoSearch == [query |-> <<>>, near |-> <<>>]
Pages == {"Recommend", "Deep Learning", "History", "About"}
\* The two pages that run the search and read the history.
MainPages == {"Recommend", "History"}

\* ------------------------------------------------------------------ strings
Space == " "

RECURSIVE LStrip(_)
LStrip(str) ==
    IF str # <<>> /\ Head(str) = Space THEN LStrip(Tail(str)) ELSE str

RECURSIVE RStrip(_)
RStrip(str) ==
    IF str # <<>> /\ str[Len(str)] = Space
    THEN RStrip(SubSeq(str, 1, Len(str) - 1))
    ELSE str

\* str.strip()
Strip(str) == RStrip(LStrip(str))

\* Text-input values a user types.
InputStrings == { <<>>, <<" ">>, <<"p">>, <<"p", " ">> }
PlainStrings == { <<>>, <<"p">> }
\* Two different inputs free of blanks.
TwoStrings == { <<"p">>, <<"q">> }

\* ------------------------------------------------------------ review texts
\* A review text is known by what the classifier makes of it (stars, 0 when
\* the classifier call raises) and by whether it holds one of the words
\* great, amazing, excellent, love, best.
FailTexts == { [stars |-> 0, positive |-> b] : b \in BOOLEAN }
TwoStar == [stars |-> 2, positive |-> TRUE]
FiveStar == [stars |-> 5, positive |-> TRUE]
FourStar == [stars |-> 4, positive |-> TRUE]

Front(seq) == SubSeq(seq, 1, Len(seq) - 1)

\* What one review appends to sentiments: the classifier's stars, or when the
\* classifier raises a random score chosen by the keywords of the text.
TipScoresDropped(tip) ==
    IF tip.stars # 0 THEN { <<tip.stars>> } ELSE { <<>> }

TipScores(tip) ==
    IF tip.stars # 0 THEN { <<tip.stars>> }
    ELSE IF tip.positive THEN { <<k>> : k \in FallbackLow..MaxStar }
    ELSE { <<k>> : k \in MinStar..FallbackLow }

\* Every value the sentiments list can take for a list of review texts.
RECURSIVE Sentiments(_)
Sentiments(texts) ==
    IF texts = <<>> THEN { <<>> }
    ELSE { s \o t : s \in Sentiments(Front(texts)), t \in TipScores(texts[Len(texts)]) }

RECURSIVE Sum(_)
Sum(seq) == IF seq = <<>> THEN 0 ELSE seq[Len(seq)] + Sum(Front(seq))

\* round(sum(sentiments) / len(sentiments), 2) if sentiments else 0, in
\* hundredths.  A list shorter than 8 never lands on a rounding tie, so
\* nearest-hundredth is what round() gives.
AvgRatingUnscaled(sent) ==
    IF sent = <<>> THEN 0 ELSE 100 * Sum(sent)

AvgRating(sent) ==
    IF sent = <<>> THEN 0
    ELSE (200 * Sum(sent) + Len(sent)) \div (2 * Len(sent))

\* random.randint(3, 7)
NumReviewsFromZero == 0..MaxNumReviews

NumReviews == MinNumReviews..MaxNumReviews

\* get_restaurant_image: the URL of the first image service whose URL answers
\* a HEAD request with 200, and the fixed Unsplash URL when none does.
RestaurantImage(validated) == IF validated THEN "service" ELSE "fallback"

\* The dict appended to results.
ResultRecord(name, sent, image) ==
    [Restaurant |-> name, Rating |-> AvgRating(sent), Reviews |-> Len(sent),
     Image |-> image]

\* ------------------------------------------------------------------ ranking
Positions(res) == [i \in 1..Len(res) |-> i]

\* pd.DataFrame([...] for r in results), the table stored with the results.
DataFrame(res) ==
    [i \in 1..Len(res) |->
        [Restaurant |-> res[i].Restaurant, AverageRating |-> res[i].Rating,
         Reviews |-> res[i].Reviews]]

\* [r for r in results if r["Reviews"] > 0], as positions in results.
Reviewed(res) ==
    SelectSeq(Positions(res), LAMBDA i : res[i].Reviews > 0)

RatingKey(res) == [i \in 1..Len(res) |-> res[i].Rating]

\* key=lambda x: x["Rating"] of max(reviewed_restaurants, ...)
TopKeyByReviews(res) == [i \in 1..Len(res) |-> res[i].Reviews]

TopKey(res) == [i \in 1..Len(res) |-> res[i].Rating]

\* key=lambda x: x["Rating"] if x["Rating"] > 0 else 0
DetailKey(res) ==
    [i \in 1..Len(res) |-> IF res[i].Rating > 0 THEN res[i].Rating ELSE 0]

\* One insertion of sorted(..., reverse=True): the element goes behind every
\* element whose key is not smaller, so equal keys keep their order.
InsertDescBeforeEqual(sorted, i, key) ==
    LET k == Cardinality({ j \in 1..Len(sorted) : key[sorted[j]] > key[i] })
    IN  SubSeq(sorted, 1, k) \o <<i>> \o SubSeq(sorted, k + 1, Len(sorted))

InsertDesc(sorted, i, key) ==
    LET k == Cardinality({ j \in 1..Len(sorted) : key[sorted[j]] >= key[i] })
    IN  SubSeq(sorted, 1, k) \o <<i>> \o SubSeq(sorted, k + 1, Len(sorted))

RECURSIVE SortedDesc(_, _)
SortedDesc(idx, key) ==
    IF idx = <<>> THEN <<>>
    ELSE InsertDesc(SortedDesc(Front(idx), key), idx[Len(idx)], key)

\* sorted(reviewed_restaurants, key=Rating, reverse=True)[:3]
Top3Unranked(res) ==
    LET ranked == Reviewed(res)
    IN  SubSeq(ranked, 1, IF Len(ranked) < PodiumSize THEN Len(ranked) ELSE PodiumSize)

Top3(res) ==
    LET ranked == SortedDesc(Reviewed(res), RatingKey(res))
    IN  SubSeq(ranked, 1, IF Len(ranked) < PodiumSize THEN Len(ranked) ELSE PodiumSize)

\* enumerate(st.session_state.results[:6])
GalleryByRating(res) ==
    LET ranked == SortedDesc(Reviewed(res), RatingKey(res))
    IN  SubSeq(ranked, 1, IF Len(ranked) < GallerySize THEN Len(ranked) ELSE GallerySize)

Gallery(res) ==
    SubSeq(Positions(res), 1, IF Len(res) < GallerySize THEN Len(res) ELSE GallerySize)

\* sorted(st.session_state.results, key=..., reverse=True)
Detailed(res) == SortedDesc(Positions(res), DetailKey(res))

\* max(iterable, key=...) keeps the first of the largest.
RECURSIVE MaxByLast(_, _)
MaxByLast(idx, key) ==
    IF Len(idx) = 1 THEN idx[1]
    ELSE LET best == MaxByLast(Front(idx), key)
             i == idx[Len(idx)]
         IN  IF key[i] >= key[best] THEN i ELSE best

RECURSIVE MaxBy(_, _)
MaxBy(idx, key) ==
    IF Len(idx) = 1 THEN idx[1]
    ELSE LET best == MaxBy(Front(idx), key)
             i == idx[Len(idx)]
         IN  IF key[i] > key[best] THEN i ELSE best

\* ------------------------------------------------------------ history store
\* The documents matched by the three equality filters of the duplicate query.
Matches(store, name, f, l) ==
    { d \in BagToSet(store) : d.Restaurant = name /\ d.Food = f /\ d.Location = l }

\* db.collection("recommendations").add(data_dict): one more document, the
\* others untouched.
AddedAlone(store, doc) == SetToBag({doc})

Added(store, doc) == store (+) SetToBag({doc})

\* append_history returns before touching the store.
SkipHistoryNever(f, l) == FALSE

SkipHistory(f, l) == Strip(f) = <<>> \/ Strip(l) = <<>>

\* if not food or not location
MissingInputFoodOnly(f, l) == f = <<>>

MissingInput(f, l) == f = <<>> \/ l = <<>>

\* st.session_state.results = None, before the place search is sent.
KeptResults(res) == res

ClearedResults(res) == None

\* if st.session_state.results:
ResultsTruthyAlways(res) == TRUE

ResultsTruthy(res) == res # None

\* -------------------------------------------------------------------- state
VARIABLES
    SERVICE_KEY,    \* st.secrets has a FOURSQUARE_SERVICE_KEY
    docs,           \* db.collection("recommendations"), a bag of documents
    page,           \* st.session_state.page
    food,           \* value of the Food Type text input
    location,       \* value of the Location text input
    results,        \* st.session_state.results
    df,             \* st.session_state.df
    pc,             \* the remote call the session's script run waits on
    restaurants,    \* places of the search loop not yet processed
    local_results,  \* the list results being built by the search loop
    review_texts,   \* review_texts of the restaurant processed last
    sentiments,     \* sentiments of the restaurant processed last
    generated,      \* its review_texts came from generate_ai_reviews
    searched,       \* food and location sent with the place search that
                    \* gave results, NoSearch before any
    history_data,   \* what read_history returned in this run
    top3,           \* podium of this run, as positions in results
    gallery,        \* gallery of this run, as positions in results
    top,            \* top pick of this run, a position in results, 0 for none
    top_pick,       \* the dict handed to append_history in this run
    detailed,       \* order of the detailed-review expanders of this run
    call,           \* how append_history went in this run
    raised,         \* an exception left the script in this run
    notice,         \* warning or error of the Search handler in this run
    prev_ok         \* arguments of the preceding append_history call if the
                    \* store answered it, else NoPick

vars == << SERVICE_KEY, docs, page, food, location, results, df, pc, restaurants,
           local_results, review_texts, sentiments, generated, searched,
           history_data, top3, gallery, top, top_pick, detailed, call, raised,
           notice, prev_ok >>

Upd(f, s, v) == [f EXCEPT ![s] = v]

\* Input domains of the specifications: the sessions, what is typed into the
\* text inputs, the names and number of places a search returns, the review
\* texts a tips fetch returns and the ones generate_ai_reviews writes, and
\* how many tips a place has, whether an image service answers and the pages
\* the sidebar is used for.
SessionDomain ==
    [sessions |-> {1}, inputs |-> InputStrings, names |-> {"A"},
     places |-> SessionPlaces, texts |-> {FiveStar}, tips |-> MaxTips,
     written |-> {FiveStar}, validated |-> {TRUE}, pages |-> MainPages,
     keys |-> BOOLEAN]

SearchDomain ==
    [sessions |-> {1}, inputs |-> { <<"p">> }, names |-> {"A"},
     places |-> SearchPlaces, texts |-> {TwoStar, FiveStar} \cup FailTexts,
     tips |-> MaxTips + 1, written |-> {FiveStar}, validated |-> {TRUE},
     pages |-> MainPages, keys |-> {TRUE}]

RankDomain ==
    [sessions |-> {1}, inputs |-> PlainStrings, names |-> {"A"},
     places |-> RankPlaces, texts |-> {FiveStar, FourStar}, tips |-> MaxTips,
     written |-> {FiveStar}, validated |-> {TRUE}, pages |-> MainPages,
     keys |-> {TRUE}]

\* One more place than the gallery holds, each with one four-star tip or with
\* none and five-star written reviews.
GalleryDomain ==
    [sessions |-> {1}, inputs |-> { <<"p">> }, names |-> {"A"},
     places |-> GallerySize + 1, texts |-> {FourStar}, tips |-> 1,
     written |-> {FiveStar}, validated |-> {TRUE}, pages |-> Pages,
     keys |-> {TRUE}]

\* One session that types different foods and locations; the image services
\* answer or not.
EditDomain ==
    [sessions |-> {1}, inputs |-> TwoStrings, names |-> {"A"},
     places |-> SessionPlaces, texts |-> {FiveStar}, tips |-> 1,
     written |-> {FiveStar}, validated |-> BOOLEAN, pages |-> MainPages,
     keys |-> {TRUE}]

RaceDomain ==
    [sessions |-> {1, 2}, inputs |-> { <<"p">> }, names |-> {"A"},
     places |-> RacePlaces, texts |-> {FiveStar}, tips |-> MaxTips,
     written |-> {FiveStar}, validated |-> {TRUE}, pages |-> MainPages,
     keys |-> {TRUE}]

\* The session right after its first script run: the Recommend page with both
\* inputs empty and no results.
InitFor(D) ==
    /\ SERVICE_KEY \in D.keys
    /\ docs = EmptyBag
    /\ page = [s \in D.sessions |-> "Recommend"]
    /\ food = [s \in D.sessions |-> <<>>]
    /\ location = [s \in D.sessions |-> <<>>]
    /\ results = [s \in D.sessions |-> None]
    /\ df = [s \in D.sessions |-> None]
    /\ pc = [s \in D.sessions |-> "idle"]
    /\ restaurants = [s \in D.sessions |-> <<>>]
    /\ local_results = [s \in D.sessions |-> <<>>]
    /\ review_texts = [s \in D.sessions |-> <<>>]
    /\ sentiments = [s \in D.sessions |-> <<>>]
    /\ generated = [s \in D.sessions |-> FALSE]
    /\ searched = [s \in D.sessions |-> NoSearch]
    /\ history_data = [s \in D.sessions |-> EmptyBag]
    /\ top3 = [s \in D.sessions |-> <<>>]
    /\ gallery = [s \in D.sessions |-> <<>>]
    /\ top = [s \in D.sessions |-> 0]
    /\ top_pick = [s \in D.sessions |-> NoPick]
    /\ detailed = [s \in D.sessions |-> <<>>]
    /\ call = [s \in D.sessions |-> "none"]
    /\ raised = [s \in D.sessions |-> FALSE]
    /\ notice = [s \in D.sessions |-> "none"]
    /\ prev_ok = [s \in D.sessions |-> NoPick]

\* ---------------------------------------------------------------- rendering
NoView ==
    [top3 |-> <<>>, gallery |-> <<>>, top |-> 0, top_pick |-> NoPick,
     detailed |-> <<>>, call |-> "none", raised |-> FALSE, pc |-> "idle"]

\* The script from "if st.session_state.results:" to the duplicate query of
\* append_history, or to its end when no query is sent.
RenderView(res, f, l) ==
    IF ~ResultsTruthy(res) THEN NoView
    ELSE IF res = None
    THEN [NoView EXCEPT !.raised = TRUE]    \* analysis_df['Rating']: KeyError
    ELSE IF Reviewed(res) = <<>>
    THEN [NoView EXCEPT !.gallery = Gallery(res), !.detailed = Detailed(res)]
    ELSE LET t == MaxBy(Reviewed(res), TopKey(res))
             shown == [NoView EXCEPT
                         !.top3 = Top3(res),
                         !.gallery = Gallery(res),
                         !.top = t,
                         !.top_pick = [Restaurant |-> res[t].Restaurant,
                                       Food |-> f, Location |-> l]]
         IN  IF SkipHistory(f, l)
             THEN [shown EXCEPT !.call = "skipped", !.detailed = Detailed(res)]
             ELSE [shown EXCEPT !.call = "pending", !.pc = "query"]

SetView(s, v) ==
    /\ top3' = Upd(top3, s, v.top3)
    /\ gallery' = Upd(gallery, s, v.gallery)
    /\ top' = Upd(top, s, v.top)
    /\ top_pick' = Upd(top_pick, s, v.top_pick)
    /\ detailed' = Upd(detailed, s, v.detailed)
    /\ call' = Upd(call, s, v.call)
    /\ raised' = Upd(raised, s, v.raised)
    /\ pc' = Upd(pc, s, v.pc)

\* ------------------------------------------------------------- a script run
\* One rerun of the script with the widget values pg, f, l, up to its first
\* remote call.  clicked: the Search button triggered the rerun.
Script(s, pg, f, l, clicked) ==
    /\ page' = Upd(page, s, pg)
    /\ food' = Upd(food, s, f)
    /\ location' = Upd(location, s, l)
    /\ prev_ok' = Upd(prev_ok, s,
                      IF call[s] \in {"found", "added"} THEN top_pick[s]
                      ELSE IF call[s] = "none" THEN prev_ok[s]
                      ELSE NoPick)
    /\ restaurants' = Upd(restaurants, s, <<>>)
    /\ local_results' = Upd(local_results, s, <<>>)
    /\ review_texts' = Upd(review_texts, s, <<>>)
    /\ sentiments' = Upd(sentiments, s, <<>>)
    /\ generated' = Upd(generated, s, FALSE)
    /\ history_data' = Upd(history_data, s, EmptyBag)
    /\ UNCHANGED << SERVICE_KEY, docs >>
    /\ IF pg = "History"
       THEN /\ notice' = Upd(notice, s, "none")
            /\ UNCHANGED << results, df, searched >>
            /\ SetView(s, [NoView EXCEPT !.pc = "history"])
       ELSE IF pg # "Recommend"
       THEN /\ notice' = Upd(notice, s, "none")
            /\ UNCHANGED << results, df, searched >>
            /\ SetView(s, NoView)
       ELSE IF clicked /\ MissingInput(f, l)
       THEN /\ notice' = Upd(notice, s, "missing_input")
            /\ UNCHANGED << results, df, searched >>
            /\ SetView(s, RenderView(results[s], f, l))
       ELSE IF clicked /\ ~SERVICE_KEY
       THEN /\ notice' = Upd(notice, s, "missing_key")
            /\ UNCHANGED << results, df, searched >>
            /\ SetView(s, RenderView(results[s], f, l))
       ELSE IF clicked
       THEN /\ notice' = Upd(notice, s, "none")
            /\ results' = Upd(results, s, ClearedResults(results[s]))
            /\ df' = Upd(df, s, ClearedResults(df[s]))
            /\ searched' = Upd(searched, s, [query |-> f, near |-> l])
            /\ SetView(s, [NoView EXCEPT !.pc = "places"])
       ELSE /\ notice' = Upd(notice, s, "none")
            /\ UNCHANGED << results, df, searched >>
            /\ SetView(s, RenderView(results[s], f, l))

\* A sidebar button.  The text inputs exist only on the Recommend page: a run
\* that does not draw them drops their values.
ClickNav(s, D) ==
    /\ pc[s] = "idle"
    /\ \E pg \in D.pages :
          LET kept == pg = "Recommend" /\ page[s] = "Recommend"
          IN  Script(s, pg, IF kept THEN food[s] ELSE <<>>,
                     IF kept THEN location[s] ELSE <<>>, FALSE)

EditFood(s, D) ==
    /\ pc[s] = "idle"
    /\ page[s] = "Recommend"
    /\ \E f \in D.inputs \ {food[s]} :
          Script(s, "Recommend", f, location[s], FALSE)

EditLocation(s, D) ==
    /\ pc[s] = "idle"
    /\ page[s] = "Recommend"
    /\ \E l \in D.inputs \ {location[s]} :
          Script(s, "Recommend", food[s], l, FALSE)

ClickSearch(s) ==
    /\ pc[s] = "idle"
    /\ page[s] = "Recommend"
    /\ Script(s, "Recommend", food[s], location[s], TRUE)

\* ------------------------------------------------------------ the search
\* Response of the place search: a failure, an empty list, or the places, of
\* which the loop needs the names.
PlacesResponse(s, D) ==
    /\ pc[s] = "places"
    /\ \E n \in 0..D.places : \E names \in [1..n -> D.names] :
          IF n = 0
          THEN /\ notice' = Upd(notice, s, "no_restaurants")
               /\ SetView(s, RenderView(results[s], food[s], location[s]))
               /\ UNCHANGED << restaurants, local_results >>
          ELSE /\ restaurants' = Upd(restaurants, s, names)
               /\ local_results' = Upd(local_results, s, <<>>)
               /\ pc' = Upd(pc, s, "tips")
               /\ UNCHANGED << notice, top3, gallery, top, top_pick,
                               detailed, call, raised >>
    /\ UNCHANGED << SERVICE_KEY, docs, page, food, location, results, df,
                    review_texts, sentiments, generated, searched,
                    history_data, prev_ok >>

\* tips[:3] of a tips response for a place that has at most `most` tips, empty
\* when the place has no id, the request fails or times out, the status is not
\* 200 or there are no tips.
TipLists(texts, most) ==
    UNION { [1..n -> texts] : n \in 0..(IF most < MaxTips THEN most ELSE MaxTips) }

\* generate_ai_reviews(name, food, base_rating, num_reviews)
GeneratedReviews(texts) == UNION { [1..n -> texts] : n \in NumReviews }

\* One pass of the loop over restaurants, from the tips response to the next
\* tips request; the last pass stores the results and renders them.
TipsResponse(s, D) ==
    /\ pc[s] = "tips"
    /\ restaurants[s] # <<>>
    /\ \E fetched \in TipLists(D.texts, D.tips) :
       \E texts \in (IF fetched = <<>> THEN GeneratedReviews(D.written) ELSE {fetched}) :
       \E sent \in Sentiments(texts) :
       \E validated \in D.validated :
          LET rest == Tail(restaurants[s])
              lr == Append(local_results[s],
                           ResultRecord(Head(restaurants[s]), sent,
                                        RestaurantImage(validated)))
              res == IF lr # <<>> THEN lr ELSE results[s]
          IN  /\ review_texts' = Upd(review_texts, s, texts)
              /\ sentiments' = Upd(sentiments, s, sent)
              /\ generated' = Upd(generated, s, fetched = <<>>)
              /\ restaurants' = Upd(restaurants, s, rest)
              /\ local_results' = Upd(local_results, s, lr)
              /\ IF rest = <<>>
                 THEN /\ results' = Upd(results, s, res)
                      /\ df' = Upd(df, s, IF lr # <<>> THEN DataFrame(lr) ELSE df[s])
                      /\ SetView(s, RenderView(res, food[s], location[s]))
                 ELSE UNCHANGED << results, df, top3, gallery, top, top_pick,
                                   detailed, call, raised, pc >>
    /\ UNCHANGED << SERVICE_KEY, docs, page, food, location, notice, searched,
                    history_data, prev_ok >>

\* --------------------------------------------------------- append_history
\* After append_history returns the script draws the detailed reviews and ends.
Finish(s, how) ==
    /\ call' = Upd(call, s, how)
    /\ detailed' = Upd(detailed, s, Detailed(results[s]))
    /\ pc' = Upd(pc, s, "idle")
    /\ UNCHANGED raised

\* The duplicate query answers.
HistoryQuery(s) ==
    /\ pc[s] = "query"
    /\ LET tp == top_pick[s]
       IN  IF Matches(docs, tp.Restaurant, Strip(tp.Food), Strip(tp.Location)) # {}
           THEN Finish(s, "found")
           ELSE /\ pc' = Upd(pc, s, "add")
                /\ UNCHANGED << call, detailed, raised >>
    /\ UNCHANGED << SERVICE_KEY, docs, page, food, location, results, df,
                    restaurants, local_results, review_texts, sentiments,
                    generated, searched, history_data, top3, gallery, top,
                    top_pick, notice, prev_ok >>

\* The add stores data_dict as it was passed in.
HistoryAdd(s) ==
    /\ pc[s] = "add"
    /\ BagCardinality(docs) < MaxDocs
    /\ docs' = Added(docs, top_pick[s])
    /\ Finish(s, "added")
    /\ UNCHANGED << SERVICE_KEY, page, food, location, results, df, restaurants,
                    local_results, review_texts, sentiments, generated,
                    searched, history_data, top3, gallery, top, top_pick,
                    notice, prev_ok >>

\* The store is unreachable or rejects the query or the add: the exception is
\* caught in append_history and shown with st.error.
PersistFailureUncaught(s) ==
    /\ pc[s] \in {"query", "add"}
    /\ call' = Upd(call, s, "failed")
    /\ raised' = Upd(raised, s, TRUE)
    /\ pc' = Upd(pc, s, "idle")
    /\ UNCHANGED << SERVICE_KEY, docs, page, food, location, results, df,
                    restaurants, local_results, review_texts, sentiments,
                    generated, searched, history_data, top3, gallery, top,
                    top_pick, detailed, notice, prev_ok >>

PersistFailure(s) ==
    /\ pc[s] \in {"query", "add"}
    /\ Finish(s, "failed")
    /\ UNCHANGED << SERVICE_KEY, docs, page, food, location, results, df,
                    restaurants, local_results, review_texts, sentiments,
                    generated, searched, history_data, top3, gallery, top,
                    top_pick, notice, prev_ok >>

\* read_history on the History page: the stream of the collection answers,
\* or fails and read_history shows the error and returns no rows.
HistoryRead(s) ==
    /\ pc[s] = "history"
    /\ \/ /\ history_data' = Upd(history_data, s, docs)
          /\ UNCHANGED notice
       \/ /\ history_data' = Upd(history_data, s, EmptyBag)
          /\ notice' = Upd(notice, s, "history_error")
    /\ pc' = Upd(pc, s, "idle")
    /\ UNCHANGED << SERVICE_KEY, docs, page, food, location, results, df,
                    restaurants, local_results, review_texts, sentiments,
                    generated, searched, top3, gallery, top, top_pick,
                    detailed, call, raised, prev_ok >>

\* ------------------------------------------------------------ specifications
NextFor(D) ==
    \E s \in D.sessions :
        \/ ClickNav(s, D)
        \/ EditFood(s, D)
        \/ EditLocation(s, D)
        \/ ClickSearch(s)
        \/ PlacesResponse(s, D)
        \/ TipsResponse(s, D)
        \/ HistoryQuery(s)
        \/ HistoryAdd(s)
        \/ PersistFailure(s)
        \/ HistoryRead(s)

\* One session, typed inputs with and without surrounding blanks.
Init == InitFor(SessionDomain)
Next == NextFor(SessionDomain)
Spec == Init /\ [][Next]_vars

\* One session, review texts the classifier scores and ones it fails on.
InitSearch == InitFor(SearchDomain)
NextSearch == NextFor(SearchDomain)
SpecSearch == InitSearch /\ [][NextSearch]_vars

\* One session, searches of several restaurants with close ratings.
InitRank == InitFor(RankDomain)
NextRank == NextFor(RankDomain)
SpecRank == InitRank /\ [][NextRank]_vars

\* One session, searches that fill the gallery and more.
InitGallery == InitFor(GalleryDomain)
NextGallery == NextFor(GalleryDomain)
SpecGallery == InitGallery /\ [][NextGallery]_vars

\* One session that edits its inputs between searches.
InitEdit == InitFor(EditDomain)
NextEdit == NextFor(EditDomain)
SpecEdit == InitEdit /\ [][NextEdit]_vars

\* Two sessions on the same collection.
InitRace == InitFor(RaceDomain)
NextRace == NextFor(RaceDomain)
SpecRace == InitRace /\ [][NextRace]_vars

\* ------------------------------------------------------------------ claims
Sessions == DOMAIN pc

Abs(n) == IF n < 0 THEN -n ELSE n

\* rating (in hundredths) is the mean of scores rounded to two decimals.
IsRoundedMean(rating, scores) ==
    IF scores = <<>> THEN rating = 0
    ELSE 2 * Abs(100 * Sum(scores) - Len(scores) * rating) <= Len(scores)

HasReviewed(res) == \E i \in 1..Len(res) : res[i].Reviews > 0

LastResult(s) == local_results[s][Len(local_results[s])]

\* C1: after two successive append_history calls with the same arguments,
\* both answered by the store and with no other writer, the store holds
\* exactly one record with that restaurant, food query and location.
C1_Idempotent ==
    \A s \in Sessions :
        (/\ pc[s] = "idle"
         /\ call[s] \in {"found", "added"}
         /\ prev_ok[s] = top_pick[s])
        => CopiesIn(top_pick[s], docs) = 1

\* C2: the store never holds two records with the same restaurant, food query
\* and location, whatever the interleaving of the sessions' queries and adds.
C2_AtMostOnePerKey ==
    \A d \in BagToSet(docs) : CopiesIn(d, docs) <= 1

\* C3: a record is added only by a run whose results hold a reviewed
\* restaurant; a run without results or without a reviewed restaurant has no
\* top pick, does not call append_history and raises nothing.
C3_WriteNeedsReviewed ==
    [][ /\ docs' # docs =>
              \E s \in Sessions : pc[s] = "add" /\ HasReviewed(results[s])
        /\ \A s \in Sessions :
              ~HasReviewed(results'[s]) =>
                  /\ top'[s] = 0
                  /\ call'[s] = "none"
                  /\ pc'[s] \notin {"query", "add"}
                  /\ ~raised'[s] ]_vars

C3_Witness ==
    \E s \in Sessions :
        /\ notice[s] = "no_restaurants"
        /\ results[s] = None
        /\ pc[s] = "idle"
        /\ docs # EmptyBag

\* C4: a run that calls append_history with an empty food query or an empty
\* location ends the call at once: no query is sent, the store is unchanged
\* and nothing is raised.
C4_EmptyInputSkips ==
    [][ \A s \in Sessions :
          (/\ pc[s] \in {"idle", "tips"}
           /\ call'[s] # "none"
           /\ (food'[s] = <<>> \/ location'[s] = <<>>))
          => (/\ call'[s] = "skipped"
              /\ pc'[s] = "idle"
              /\ docs' = docs
              /\ ~raised'[s]) ]_vars

C4_Witness ==
    \E s \in Sessions :
        /\ call[s] = "skipped"
        /\ food[s] = <<>>
        /\ location[s] # <<>>
        /\ top[s] # 0
        /\ docs # EmptyBag

\* C5: when the store fails the duplicate query or the add, no exception
\* leaves append_history, the results, podium and top pick stay as they were
\* and the run goes on to draw the detailed reviews of every restaurant.
C5_PersistFailureContained ==
    [][ \A s \in Sessions :
          (call[s] = "pending" /\ call'[s] = "failed")
          => (/\ ~raised'[s]
              /\ results'[s] = results[s]
              /\ top3'[s] = top3[s]
              /\ top'[s] = top[s]
              /\ docs' = docs
              /\ Len(detailed'[s]) = Len(results[s])
              /\ pc'[s] = "idle") ]_vars

C5_Witness ==
    \E s \in Sessions :
        /\ call[s] = "failed"
        /\ top[s] # 0
        /\ top3[s] # <<>>
        /\ detailed[s] # <<>>

\* The stars of the review texts the classifier scored.
RECURSIVE ScoredStars(_)
ScoredStars(texts) ==
    IF texts = <<>> THEN <<>>
    ELSE LET t == texts[Len(texts)]
         IN  IF t.stars # 0 THEN Append(ScoredStars(Front(texts)), t.stars)
             ELSE ScoredStars(Front(texts))

HasFailedText(texts) == \E i \in 1..Len(texts) : texts[i].stars = 0
HasScoredText(texts) == \E i \in 1..Len(texts) : texts[i].stars # 0

\* C6 as claimed: a review the classifier fails on contributes no score, so
\* the record of the restaurant processed last counts and averages only the
\* reviews the classifier scored.
C6_FailuresDropped ==
    \A s \in Sessions :
        local_results[s] # <<>> =>
            /\ LastResult(s).Reviews = Len(ScoredStars(review_texts[s]))
            /\ IsRoundedMean(LastResult(s).Rating, ScoredStars(review_texts[s]))

\* C6 amended: a review the classifier fails on contributes a fallback score,
\* 3..5 when the text holds a positive keyword and 1..3 otherwise; the record
\* counts every review text and averages the scores of all of them.
C6_FailuresScoredByFallback ==
    \A s \in Sessions :
        local_results[s] # <<>> =>
            /\ LastResult(s).Reviews = Len(review_texts[s])
            /\ Len(sentiments[s]) = Len(review_texts[s])
            /\ \A i \in 1..Len(review_texts[s]) :
                  LET t == review_texts[s][i]
                      k == sentiments[s][i]
                  IN  IF t.stars # 0 THEN k = t.stars
                      ELSE IF t.positive THEN k \in FallbackLow..MaxStar
                      ELSE k \in MinStar..FallbackLow
            /\ IsRoundedMean(LastResult(s).Rating, sentiments[s])

C6_Witness ==
    \E s \in Sessions :
        /\ local_results[s] # <<>>
        /\ HasFailedText(review_texts[s])
        /\ HasScoredText(review_texts[s])
        /\ LastResult(s).Reviews > Len(ScoredStars(review_texts[s]))
        /\ ~IsRoundedMean(LastResult(s).Rating, ScoredStars(review_texts[s]))

\* C7 as claimed: a restaurant whose tips fetch gave no review text is
\* recorded with rating 0 and 0 reviews.
C7_NoTipsMeansZero ==
    \A s \in Sessions :
        (generated[s] /\ local_results[s] # <<>>) =>
            LastResult(s).Rating = 0 /\ LastResult(s).Reviews = 0

\* C7 amended: a restaurant whose tips fetch gave no review text gets
\* generated reviews, between the least and the most random.randint allows;
\* its record counts them all, its rating is at least one star, it is among
\* the reviewed restaurants once results are stored, and nothing is raised.
C7_NoTipsMeansGenerated ==
    \A s \in Sessions :
        (generated[s] /\ local_results[s] # <<>>) =>
            /\ LastResult(s).Reviews = Len(review_texts[s])
            /\ LastResult(s).Reviews \in MinNumReviews..MaxNumReviews
            /\ LastResult(s).Rating >= 100 * MinStar
            /\ ~raised[s]
            /\ (restaurants[s] = <<>> =>
                   /\ results[s] = local_results[s]
                   /\ \E i \in 1..Len(Reviewed(results[s])) :
                         Reviewed(results[s])[i] = Len(results[s]))

C7_Witness ==
    \E s \in Sessions :
        /\ generated[s]
        /\ pc[s] = "idle"
        /\ Len(results[s]) >= 2
        /\ results[s] = local_results[s]
        /\ top[s] = Len(results[s])
        /\ call[s] = "added"

\* C8: every record a search builds or stores has rating 0 when it has no
\* reviews, and a rating from 0 to 5.
C8_RatingInvariants ==
    \A s \in Sessions :
        \A res \in {local_results[s], results[s]} :
            \A i \in 1..Len(res) :
                /\ res[i].Reviews = 0 => res[i].Rating = 0
                /\ 0 <= res[i].Rating
                /\ res[i].Rating <= 100 * MaxStar

C8_Witness ==
    \E s \in Sessions :
        /\ results[s] # None
        /\ results[s] = local_results[s]
        /\ HasFailedText(review_texts[s])
        /\ HasScoredText(review_texts[s])
        /\ LastResult(s).Rating = 100 * MaxStar

\* C9: the top pick is a reviewed restaurant, no reviewed restaurant is rated
\* higher, and none rated the same stands before it in the results.
C9_TopPickFirstOfBest ==
    \A s \in Sessions :
        top[s] # 0 =>
            /\ top[s] \in 1..Len(results[s])
            /\ results[s][top[s]].Reviews > 0
            /\ \A j \in 1..Len(results[s]) :
                  results[s][j].Reviews > 0 =>
                      \/ results[s][j].Rating < results[s][top[s]].Rating
                      \/ /\ results[s][j].Rating = results[s][top[s]].Rating
                         /\ top[s] <= j

C9_Witness ==
    \E s \in Sessions :
        /\ top[s] = 2
        /\ Len(results[s]) = 3
        /\ results[s][3].Rating = results[s][2].Rating
        /\ results[s][1].Rating < results[s][2].Rating

\* order lists positions of res by rating, highest first, positions of equal
\* rating in their order in res, none twice.
IsStableDescending(order, res) ==
    \A i, j \in 1..Len(order) :
        i < j =>
            \/ res[order[i]].Rating > res[order[j]].Rating
            \/ /\ res[order[i]].Rating = res[order[j]].Rating
               /\ order[i] < order[j]

\* C10: the podium and the detailed reviews are ordered by rating, highest
\* first, and restaurants of equal rating keep their order in the results.
C10_StableDescending ==
    \A s \in Sessions :
        /\ IsStableDescending(top3[s], results[s])
        /\ IsStableDescending(detailed[s], results[s])

C10_Witness ==
    \E s \in Sessions :
        /\ Len(results[s]) = 3
        /\ top3[s] = <<2, 3, 1>>
        /\ detailed[s] = <<2, 3, 1>>
        /\ results[s][2].Rating = results[s][3].Rating


\* The session has rendered the results of its Recommend page in this run.
Rendered(s) ==
    /\ page[s] = "Recommend"
    /\ results[s] # None
    /\ pc[s] \notin {"places", "tips"}

Min(a, b) == IF a < b THEN a ELSE b

\* C11 as claimed: the gallery holds only restaurants with reviews and a
\* non-empty image URL, and shows them by rating, highest first.
C11_GalleryByRating ==
    \A s \in Sessions :
        /\ \A i \in 1..Len(gallery[s]) :
               /\ results[s][gallery[s][i]].Reviews > 0
               /\ results[s][gallery[s][i]].Image # ""
        /\ \A i, j \in 1..Len(gallery[s]) :
               i < j => results[s][gallery[s][i]].Rating
                            >= results[s][gallery[s][j]].Rating

\* C11 as the code has it: the gallery shows the first six restaurants of the
\* results in the order of the results, whatever their ratings; each of them
\* has reviews and a non-empty image URL, as every restaurant of the results
\* has, so no restaurant without reviews appears.
C11_GalleryFirstSix ==
    \A s \in Sessions :
        /\ Rendered(s) =>
               /\ Len(gallery[s]) = Min(GallerySize, Len(results[s]))
               /\ \A i \in 1..Len(gallery[s]) : gallery[s][i] = i
        /\ ~Rendered(s) => gallery[s] = <<>>
        /\ \A i \in 1..Len(gallery[s]) :
               /\ results[s][gallery[s][i]].Reviews > 0
               /\ results[s][gallery[s][i]].Image # ""

\* A search gave more restaurants than the gallery holds; the gallery shows a
\* lower rated restaurant before a higher rated one and leaves out one that
\* is rated higher than its first.
C11_Witness ==
    \E s \in Sessions :
        /\ Rendered(s)
        /\ Len(results[s]) > GallerySize
        /\ Len(gallery[s]) = GallerySize
        /\ results[s][gallery[s][1]].Rating < results[s][gallery[s][2]].Rating
        /\ results[s][gallery[s][1]].Rating < results[s][GallerySize + 1].Rating

\* C12: the history store is append-only: no step of a session (a search, a
\* rerun, a page change, a read of the history, a write of a top pick) removes
\* or changes a stored record.
C12_AppendOnly ==
    [][\A d \in BagToSet(docs) : CopiesIn(d, docs') >= CopiesIn(d, docs)]_vars

\* Two records were written, the session went to the History page and its
\* read returned both.
C12_Witness ==
    \E s \in Sessions :
        /\ page[s] = "History"
        /\ pc[s] = "idle"
        /\ BagCardinality(docs) >= 2
        /\ Cardinality(BagToSet(docs)) >= 2
        /\ history_data[s] = docs

\* The positions of the reviewed restaurants of the results.
ReviewedSet(res) == { i \in 1..Len(res) : res[i].Reviews > 0 }

Members(order) == { order[i] : i \in 1..Len(order) }

\* C13: the podium holds the first min(3, k) restaurants of a rating-descending
\* ordering of the k reviewed restaurants of the results: as many entries as
\* that, all different and reviewed, in descending order of rating, and no
\* reviewed restaurant left out is rated higher than one on the podium; it is
\* empty when nothing is rendered.
C13_PodiumIsPrefix ==
    \A s \in Sessions :
        /\ ~Rendered(s) => top3[s] = <<>>
        /\ Rendered(s) =>
               LET res == results[s]
                   k == Cardinality(ReviewedSet(res))
               IN  /\ Len(top3[s]) = Min(PodiumSize, k)
                   /\ Cardinality(Members(top3[s])) = Len(top3[s])
                   /\ Members(top3[s]) \subseteq ReviewedSet(res)
                   /\ \A i, j \in 1..Len(top3[s]) :
                          i < j => res[top3[s][i]].Rating >= res[top3[s][j]].Rating
                   /\ \A m \in Members(top3[s]) :
                      \A o \in ReviewedSet(res) \ Members(top3[s]) :
                          res[m].Rating >= res[o].Rating

\* More than three reviewed restaurants: the podium has three of them, the
\* first of the results is not among them and is rated lower than each.
C13_Witness ==
    \E s \in Sessions :
        /\ Rendered(s)
        /\ Cardinality(ReviewedSet(results[s])) > PodiumSize
        /\ Len(top3[s]) = PodiumSize
        /\ 1 \notin Members(top3[s])
        /\ \A m \in Members(top3[s]) : results[s][m].Rating > results[s][1].Rating

\* Fewer than three reviewed restaurants: the podium has them all and no more.
C13_WitnessShort ==
    \E s \in Sessions :
        /\ Rendered(s)
        /\ Len(top3[s]) = 2
        /\ Members(top3[s]) = ReviewedSet(results[s])
        /\ results[s][top3[s][1]].Rating > results[s][top3[s][2]].Rating

\* C14 as claimed: the food and location of a record written to the store are
\* those of the search that gave the results its restaurant was picked from.
C14_RecordOfItsSearch ==
    \A s \in Sessions :
        call[s] = "added" =>
            /\ top_pick[s] \in BagToSet(docs)
            /\ top_pick[s].Food = searched[s].query
            /\ top_pick[s].Location = searched[s].near

\* C15: whenever the rendered results have a reviewed restaurant, a top pick
\* is chosen and it is the first entry of the podium, ties in rating
\* included; the record handed to the store names that restaurant.
C15_TopPickHeadsPodium ==
    \A s \in Sessions :
        /\ (Rendered(s) /\ ReviewedSet(results[s]) # {}) => top[s] # 0
        /\ top[s] # 0 =>
               /\ top3[s] # <<>>
               /\ top3[s][1] = top[s]
               /\ top_pick[s].Restaurant = results[s][top3[s][1]].Restaurant

\* The two highest rated restaurants are tied and stand behind a lower rated
\* one; the record of the top pick was written.
C15_Witness ==
    \E s \in Sessions :
        /\ call[s] = "added"
        /\ top_pick[s] \in BagToSet(docs)
        /\ Len(top3[s]) = PodiumSize
        /\ top3[s][1] = top[s]
        /\ top[s] > 1
        /\ results[s][top3[s][1]].Rating = results[s][top3[s][2]].Rating
        /\ results[s][top3[s][3]].Rating < results[s][top3[s][2]].Rating

\* C16: a Search click with food, location and service key clears the
\* stored results before the place search is sent; they stay None while the
\* search fetches and when it finds no place, with nothing shown or written,
\* and the only value they take otherwise is the list that this search
\* assembled.
C16_ResultsOfThisSearch ==
    [][\A s \in Sessions :
          /\ pc'[s] \in {"places", "tips"} => results'[s] = None
          /\ notice'[s] = "no_restaurants" =>
                 /\ results'[s] = None
                 /\ top'[s] = 0 /\ top3'[s] = <<>> /\ gallery'[s] = <<>>
                 /\ call'[s] = "none"
          /\ results'[s] # results[s] =>
                 \/ /\ pc[s] = "idle" /\ pc'[s] = "places"
                    /\ results'[s] = None
                 \/ /\ pc[s] = "tips" /\ restaurants'[s] = <<>>
                    /\ results[s] = None
                    /\ results'[s] = local_results'[s]]_vars

\* A search wrote its top pick, and a later search of the same session found
\* no place: the stored results are None and nothing is shown.
C16_Witness ==
    \E s \in Sessions :
        /\ notice[s] = "no_restaurants"
        /\ results[s] = None
        /\ docs # EmptyBag
        /\ searched[s] # NoSearch
        /\ top[s] = 0

\* C17: no place search is sent with an empty food or location or without a
\* service key; the Search click that is answered with the warning or the
\* error starts no fetch and leaves the stored results, the stored table and
\* the store as they were, and after the warning its run ends without a
\* query or an add to the store.
C17_RejectedSearch ==
    [][\A s \in Sessions :
          /\ (pc[s] = "idle" /\ pc'[s] = "places") =>
                 /\ food'[s] # <<>> /\ location'[s] # <<>>
                 /\ SERVICE_KEY
          /\ (pc[s] = "idle" /\ notice'[s] \in {"missing_input", "missing_key"}) =>
                 /\ results'[s] = results[s] /\ df'[s] = df[s]
                 /\ pc'[s] \notin {"places", "tips"}
                 /\ restaurants'[s] = <<>> /\ local_results'[s] = <<>>
                 /\ searched'[s] = searched[s]
                 /\ docs' = docs
                 /\ notice'[s] = "missing_input" =>
                        /\ pc'[s] = "idle"
                        /\ call'[s] \in {"none", "skipped"}]_vars

\* A search stored results and wrote its top pick; the food input was emptied
\* and Search clicked: the warning is shown, the results are still there and
\* append_history returned without a call to the store.
C17_Witness ==
    \E s \in Sessions :
        /\ notice[s] = "missing_input"
        /\ food[s] = <<>> /\ location[s] # <<>>
        /\ results[s] # None /\ df[s] = DataFrame(results[s])
        /\ docs # EmptyBag
        /\ call[s] = "skipped"
        /\ pc[s] = "idle"

\* Search clicked with food and location in a session without service key.
C17_WitnessNoKey ==
    \E s \in Sessions :
        /\ notice[s] = "missing_key"
        /\ food[s] # <<>> /\ location[s] # <<>>
        /\ ~SERVICE_KEY
        /\ results[s] = None
        /\ pc[s] = "idle"

====
